---- MODULE Spec2Model ----
(***************************************************************************)
(* send_test_email.py: read four configuration values from the             *)
(* environment, POST a client-credentials grant to the token endpoint,     *)
(* POST one self-addressed message to the Graph sendMail endpoint with the *)
(* bearer token, print one result line.                                    *)
(*                                                                         *)
(* One requests.post call is one blocking network call; what the remote    *)
(* endpoint answers (status, body) or whether the call raises instead of   *)
(* returning is chosen by the environment.                                 *)
(***************************************************************************)
EXTENDS Integers, Sequences, FiniteSets, TLC

VARIABLES
    env,            \* process environment after load_dotenv(): name -> value
    CLIENT_ID, CLIENT_SECRET, TENANT_ID, FROM_EMAIL, TO_EMAIL,  \* module globals
    pc,             \* position of the single thread of control
    tokenReq,       \* arguments of the requests.post call of get_access_token
    tokenResp,      \* the response object that call returned
    token,          \* local variable `token` of the main block
    mailReq,        \* arguments of the requests.post call of send_email
    mailResp,       \* the response object that call returned
    exc,            \* the exception in flight / bound to `e`
    output,         \* what has been printed to standard output, call by call
    tokenCalls,     \* requests.post calls made to the token endpoint
    mailCalls,      \* requests.post calls made to the mail endpoint
    sendEmailCalls  \* invocations of send_email

vars == <<env, CLIENT_ID, CLIENT_SECRET, TENANT_ID, FROM_EMAIL, TO_EMAIL, pc,
          tokenReq, tokenResp, token, mailReq, mailResp, exc, output,
          tokenCalls, mailCalls, sendEmailCalls>>

globals == <<CLIENT_ID, CLIENT_SECRET, TENANT_ID, FROM_EMAIL, TO_EMAIL>>

-----------------------------------------------------------------------------
(* Bounds of the model.                                                    *)

\* longest access_token string the token endpoint hands out
MaxTokenLen == 2

-----------------------------------------------------------------------------
(* Python values.                                                          *)

\* os.getenv of a variable that is not set
None == [t |-> "None"]
\* a str object
Str(s) == [t |-> "str", v |-> s]
\* a module global that has not been assigned yet / no object
Unset == [t |-> "unset"]

\* f"{x}" : the text an f-string puts in place of the value x
Format(x) == IF x.t = "None" THEN "None" ELSE x.v

RECURSIVE StringsUpTo(_)
StringsUpTo(n) ==
    IF n = 0 THEN {""}
    ELSE LET S == StringsUpTo(n - 1)
         IN  S \cup {s \o c : s \in S, c \in {"a", "Z"}}

\* access_token values the token endpoint may return
Tokens == StringsUpTo(MaxTokenLen)

\* values a variable of the environment may have
EnvNames == {"MICROSOFT_CLIENT_ID", "MICROSOFT_CLIENT_SECRET",
             "MICROSOFT_TENANT_ID", "FROM_EMAIL"}
EnvValues(n) ==
    CASE n = "MICROSOFT_CLIENT_ID"     -> {None, Str("app-1")}
      [] n = "MICROSOFT_CLIENT_SECRET" -> {None, Str("s3cret")}
      [] n = "MICROSOFT_TENANT_ID"     -> {None, Str("tenant-1")}
      [] n = "FROM_EMAIL"              -> {None, Str("a@x.io"), Str("b@x.io")}

\* os.getenv(name)
getenv(name) == env[name]

-----------------------------------------------------------------------------
(* HTTP responses.                                                         *)

\* status codes an endpoint may answer with
StatusCodes == {101, 200, 202, 299, 300, 304, 399, 400, 401, 499, 500, 599, 600}

\* response bodies: not JSON at all, a JSON array, a JSON object
TextBody == [kind |-> "text"]
ArrayBody == [kind |-> "array"]
ObjectBody(f) == [kind |-> "object", fields |-> f]

TokenBodies ==
    {TextBody, ArrayBody, ObjectBody([error |-> "invalid_client"])}
    \cup {ObjectBody([token_type |-> "Bearer", access_token |-> Str(t)]) : t \in Tokens}

\* a response object as requests.post returns it
Response(status, body) == [received |-> TRUE, status |-> status, body |-> body]
\* no response object (the call has not returned, or it raised)
NoResponse == [received |-> FALSE]
\* no requests.post call made
NoRequest == [sent |-> FALSE]
\* no exception in flight
NoException == [type |-> "none"]

\* response.raise_for_status() with only server errors raising
RaisesForStatus_ServerOnly(resp) == resp.status >= 500 /\ resp.status < 600

\* response.raise_for_status(): TRUE when it raises HTTPError (4xx and 5xx)
RaisesForStatus(resp) == resp.status >= 400 /\ resp.status < 600

\* the HTTPError raise_for_status raises
HTTPError(resp, url) == [type |-> "HTTPError", status |-> resp.status, url |-> url]

\* the lookup written as response.json().get("access_token")
AccessTokenLookup_Get(resp) ==
    CASE resp.body.kind = "text"  -> [ok |-> FALSE, exc |-> [type |-> "JSONDecodeError"]]
      [] resp.body.kind = "array" -> [ok |-> FALSE, exc |-> [type |-> "AttributeError"]]
      [] resp.body.kind = "object" ->
            IF "access_token" \in DOMAIN resp.body.fields
            THEN [ok |-> TRUE, value |-> resp.body.fields["access_token"]]
            ELSE [ok |-> TRUE, value |-> None]

\* response.json()["access_token"]: the value, or the exception raised
AccessTokenLookup(resp) ==
    CASE resp.body.kind = "text"  -> [ok |-> FALSE, exc |-> [type |-> "JSONDecodeError"]]
      [] resp.body.kind = "array" -> [ok |-> FALSE, exc |-> [type |-> "TypeError"]]
      [] resp.body.kind = "object" ->
            IF "access_token" \in DOMAIN resp.body.fields
            THEN [ok |-> TRUE, value |-> resp.body.fields["access_token"]]
            ELSE [ok |-> FALSE, exc |-> [type |-> "KeyError", key |-> "access_token"]]

-----------------------------------------------------------------------------
(* The two requests.                                                       *)

TokenUrl == "https://login.microsoftonline.com/" \o Format(TENANT_ID) \o "/oauth2/v2.0/token"

TokenRequest ==
    [sent    |-> TRUE,
     url     |-> TokenUrl,
     headers |-> [ContentType |-> "application/x-www-form-urlencoded"],
     data    |-> [grant_type    |-> "client_credentials",
                  client_id     |-> CLIENT_ID,
                  client_secret |-> CLIENT_SECRET,
                  scope         |-> "https://graph.microsoft.com/.default"]]

MailUrl == "https://graph.microsoft.com/v1.0/users/" \o Format(FROM_EMAIL) \o "/sendMail"

\* the Authorization header without the separating blank
AuthorizationHeader_NoBlank(access_token) == "Bearer" \o Format(access_token)

\* f"Bearer {access_token}"
AuthorizationHeader(access_token) == "Bearer " \o Format(access_token)

\* email_msg (the subject's leading emoji is left out: it is not a TLA+ character)
EmailMsg ==
    [message |->
        [subject |-> "Test Email from Python via Microsoft Graph",
         body    |-> [contentType |-> "Text",
                      content     |-> "This is a test email sent using Microsoft Graph API with Python."],
         toRecipients |-> << [emailAddress |-> [address |-> TO_EMAIL]] >>]]

MailRequest(access_token) ==
    [sent    |-> TRUE,
     url     |-> MailUrl,
     headers |-> [Authorization |-> AuthorizationHeader(access_token),
                  ContentType   |-> "application/json"],
     json    |-> EmailMsg]

\* the two lines the program prints (without their leading emoji)
SuccessLine == "Email sent successfully!"
FailurePrefix == "Error sending email:"

-----------------------------------------------------------------------------
(* Initial state: the interpreter has run load_dotenv(); nothing of the    *)
(* module below line 6 has run yet.                                        *)

Init ==
    /\ env \in {f \in [EnvNames -> UNION {EnvValues(n) : n \in EnvNames}] :
                    \A n \in EnvNames : f[n] \in EnvValues(n)}
    /\ CLIENT_ID = Unset /\ CLIENT_SECRET = Unset /\ TENANT_ID = Unset
    /\ FROM_EMAIL = Unset /\ TO_EMAIL = Unset
    /\ pc = "load"
    /\ tokenReq = NoRequest /\ tokenResp = NoResponse
    /\ token = Unset
    /\ mailReq = NoRequest /\ mailResp = NoResponse
    /\ exc = NoException
    /\ output = << >>
    /\ tokenCalls = 0 /\ mailCalls = 0 /\ sendEmailCalls = 0

-----------------------------------------------------------------------------
(* Steps of the program.                                                   *)

\* lines 9-13 with the recipient read from another variable
LoadConfig_OtherRecipient ==
    /\ pc = "load"
    /\ CLIENT_ID' = getenv("MICROSOFT_CLIENT_ID")
    /\ CLIENT_SECRET' = getenv("MICROSOFT_CLIENT_SECRET")
    /\ TENANT_ID' = getenv("MICROSOFT_TENANT_ID")
    /\ FROM_EMAIL' = getenv("FROM_EMAIL")
    /\ TO_EMAIL' = getenv("MICROSOFT_CLIENT_ID")
    /\ pc' = "main"
    /\ UNCHANGED <<env, tokenReq, tokenResp, token, mailReq, mailResp, exc, output,
                   tokenCalls, mailCalls, sendEmailCalls>>

\* lines 9-13: the module globals
LoadConfig ==
    /\ pc = "load"
    /\ CLIENT_ID' = getenv("MICROSOFT_CLIENT_ID")
    /\ CLIENT_SECRET' = getenv("MICROSOFT_CLIENT_SECRET")
    /\ TENANT_ID' = getenv("MICROSOFT_TENANT_ID")
    /\ FROM_EMAIL' = getenv("FROM_EMAIL")
    /\ TO_EMAIL' = FROM_EMAIL'
    /\ pc' = "main"
    /\ UNCHANGED <<env, tokenReq, tokenResp, token, mailReq, mailResp, exc, output,
                   tokenCalls, mailCalls, sendEmailCalls>>

\* get_access_token refusing to run with a configuration value missing
TokenPost_Validated ==
    /\ pc = "main"
    /\ IF None \in {CLIENT_ID, CLIENT_SECRET, TENANT_ID, FROM_EMAIL}
       THEN /\ exc' = [type |-> "ValueError"]
            /\ pc' = "except"
            /\ UNCHANGED <<tokenReq, tokenCalls>>
       ELSE /\ tokenReq' = TokenRequest
            /\ tokenCalls' = tokenCalls + 1
            /\ pc' = "token_wait"
            /\ UNCHANGED exc
    /\ UNCHANGED <<env, globals, tokenResp, token, mailReq, mailResp, output,
                   mailCalls, sendEmailCalls>>

\* get_access_token returning at once, without waiting for the response
TokenPost_NoWait ==
    /\ pc = "main"
    /\ tokenReq' = TokenRequest
    /\ tokenCalls' = tokenCalls + 1
    /\ token' = None
    /\ pc' = "send"
    /\ UNCHANGED <<env, globals, tokenResp, mailReq, mailResp, exc, output,
                   mailCalls, sendEmailCalls>>

\* lines 57-58, 17-26: main enters the try block and calls get_access_token,
\* which builds the request and calls requests.post; the call blocks
TokenPost ==
    /\ pc = "main"
    /\ tokenReq' = TokenRequest
    /\ tokenCalls' = tokenCalls + 1
    /\ pc' = "token_wait"
    /\ UNCHANGED <<env, globals, tokenResp, token, mailReq, mailResp, exc, output,
                   mailCalls, sendEmailCalls>>

\* line 26: requests.post returns a response object, whatever its status
TokenReturns ==
    /\ pc = "token_wait"
    /\ \E s \in StatusCodes, b \in TokenBodies : tokenResp' = Response(s, b)
    /\ pc' = "token_check"
    /\ UNCHANGED <<env, globals, tokenReq, token, mailReq, mailResp, exc, output,
                   tokenCalls, mailCalls, sendEmailCalls>>

\* line 26: requests.post raises instead (no connection, name not resolved, ...)
TokenRaises ==
    /\ pc = "token_wait"
    /\ exc' = [type |-> "ConnectionError", url |-> tokenReq.url]
    /\ pc' = "except"
    /\ UNCHANGED <<env, globals, tokenReq, tokenResp, token, mailReq, mailResp, output,
                   tokenCalls, mailCalls, sendEmailCalls>>

\* lines 27-28, 58: status check, field lookup, assignment to `token`
TokenCheck ==
    /\ pc = "token_check"
    /\ IF RaisesForStatus(tokenResp)
       THEN /\ exc' = HTTPError(tokenResp, tokenReq.url)
            /\ pc' = "except"
            /\ UNCHANGED token
       ELSE LET r == AccessTokenLookup(tokenResp)
            IN  IF r.ok
                THEN /\ token' = r.value
                     /\ pc' = "send"
                     /\ UNCHANGED exc
                ELSE /\ exc' = r.exc
                     /\ pc' = "except"
                     /\ UNCHANGED token
    /\ UNCHANGED <<env, globals, tokenReq, tokenResp, mailReq, mailResp, output,
                   tokenCalls, mailCalls, sendEmailCalls>>

\* lines 59, 32-51: main calls send_email(token), which builds the request
\* and calls requests.post; the call blocks
MailPost ==
    /\ pc = "send"
    /\ sendEmailCalls' = sendEmailCalls + 1
    /\ mailReq' = MailRequest(token)
    /\ mailCalls' = mailCalls + 1
    /\ pc' = "mail_wait"
    /\ UNCHANGED <<env, globals, tokenReq, tokenResp, token, mailResp, exc, output,
                   tokenCalls>>

\* line 51: requests.post returns a response object, whatever its status
MailReturns ==
    /\ pc = "mail_wait"
    /\ \E s \in StatusCodes : mailResp' = Response(s, TextBody)
    /\ pc' = "mail_check"
    /\ UNCHANGED <<env, globals, tokenReq, tokenResp, token, mailReq, exc, output,
                   tokenCalls, mailCalls, sendEmailCalls>>

\* line 51: requests.post raises instead
MailRaises ==
    /\ pc = "mail_wait"
    /\ exc' = [type |-> "ConnectionError", url |-> mailReq.url]
    /\ pc' = "except"
    /\ UNCHANGED <<env, globals, tokenReq, tokenResp, token, mailReq, mailResp, output,
                   tokenCalls, mailCalls, sendEmailCalls>>

\* send_email printing the success line without the status check
MailCheck_NoStatusCheck ==
    /\ pc = "mail_check"
    /\ output' = Append(output, <<SuccessLine>>)
    /\ pc' = "done"
    /\ UNCHANGED <<env, globals, tokenReq, tokenResp, token, mailReq, mailResp, exc,
                   tokenCalls, mailCalls, sendEmailCalls>>

\* send_email accepting 200 alone as success
MailCheck_Only200 ==
    /\ pc = "mail_check"
    /\ IF mailResp.status # 200
       THEN /\ exc' = HTTPError(mailResp, mailReq.url)
            /\ pc' = "except"
            /\ UNCHANGED output
       ELSE /\ output' = Append(output, <<SuccessLine>>)
            /\ pc' = "done"
            /\ UNCHANGED exc
    /\ UNCHANGED <<env, globals, tokenReq, tokenResp, token, mailReq, mailResp,
                   tokenCalls, mailCalls, sendEmailCalls>>

\* lines 52-53: status check, then the success line; the try block ends
MailCheck ==
    /\ pc = "mail_check"
    /\ IF RaisesForStatus(mailResp)
       THEN /\ exc' = HTTPError(mailResp, mailReq.url)
            /\ pc' = "except"
            /\ UNCHANGED output
       ELSE /\ output' = Append(output, <<SuccessLine>>)
            /\ pc' = "done"
            /\ UNCHANGED exc
    /\ UNCHANGED <<env, globals, tokenReq, tokenResp, token, mailReq, mailResp,
                   tokenCalls, mailCalls, sendEmailCalls>>

\* a handler that runs the try block once more after the first failure
Except_Retry ==
    /\ pc = "except"
    /\ output' = Append(output, <<FailurePrefix, exc>>)
    /\ pc' = IF Len(output) = 0 THEN "main" ELSE "done"
    /\ UNCHANGED <<env, globals, tokenReq, tokenResp, token, mailReq, mailResp, exc,
                   tokenCalls, mailCalls, sendEmailCalls>>

\* a handler written as `except requests.HTTPError`: anything else ends the
\* process with a traceback on standard error
Except_HTTPErrorOnly ==
    /\ pc = "except"
    /\ output' = IF exc.type = "HTTPError"
                 THEN Append(output, <<FailurePrefix, exc>>)
                 ELSE output
    /\ pc' = "done"
    /\ UNCHANGED <<env, globals, tokenReq, tokenResp, token, mailReq, mailResp, exc,
                   tokenCalls, mailCalls, sendEmailCalls>>

\* lines 60-61: the handler prints the failure prefix and the exception
Except ==
    /\ pc = "except"
    /\ output' = Append(output, <<FailurePrefix, exc>>)
    /\ pc' = "done"
    /\ UNCHANGED <<env, globals, tokenReq, tokenResp, token, mailReq, mailResp, exc,
                   tokenCalls, mailCalls, sendEmailCalls>>

Next ==
    \/ LoadConfig
    \/ TokenPost
    \/ TokenReturns
    \/ TokenRaises
    \/ TokenCheck
    \/ MailPost
    \/ MailReturns
    \/ MailRaises
    \/ MailCheck
    \/ Except

Spec == Init /\ [][Next]_vars

\* The interpreter runs every step of the program it reaches.  No timeout is
\* passed to requests.post, so nothing makes a pending call return: the two
\* network steps carry no fairness.
ProgramStep ==
    LoadConfig \/ TokenPost \/ TokenCheck \/ MailPost \/ MailCheck \/ Except

FairSpec == Spec /\ WF_vars(ProgramStep)

-----------------------------------------------------------------------------
(* Vocabulary of the properties.                                           *)

Is2xx(resp) == resp.received /\ resp.status >= 200 /\ resp.status <= 299
Is4xx5xx(resp) == resp.received /\ resp.status >= 400 /\ resp.status <= 599
HasAccessToken(resp) ==
    resp.received /\ resp.body.kind = "object" /\ "access_token" \in DOMAIN resp.body.fields
SuccessPrinted == \E i \in 1..Len(output) : output[i] = <<SuccessLine>>
FailurePrinted == \E i \in 1..Len(output) : output[i][1] = FailurePrefix
NoMailRequest == sendEmailCalls = 0 /\ mailCalls = 0 /\ ~mailReq.sent

-----------------------------------------------------------------------------
(* C1 *)

\* C1 as stated: whenever the token endpoint's response has a status outside
\* 200-299 (1xx and 3xx included), send_email is never invoked and no request
\* to the mail endpoint is issued.
C1_NonSuccessTokenNeverSends ==
    (tokenResp.received /\ ~Is2xx(tokenResp)) => NoMailRequest

\* C1 amended: whenever the token endpoint's response has a 4xx or 5xx status,
\* send_email is never invoked and no request to the mail endpoint is issued.
C1_ErrorTokenNeverSends ==
    Is4xx5xx(tokenResp) => NoMailRequest

\* a run that ended after a 400 from the token endpoint whose body nevertheless
\* carried an access_token: the failure line with the HTTP error, no mail request
C1_Witness ==
    /\ pc = "done"
    /\ tokenResp.received /\ tokenResp.status = 400 /\ HasAccessToken(tokenResp)
    /\ NoMailRequest
    /\ output = << <<FailurePrefix, [type |-> "HTTPError", status |-> 400, url |-> tokenReq.url]>> >>

-----------------------------------------------------------------------------
(* C2 *)

\* C2: whenever a mail request is issued, its Authorization header is
\* "Bearer " followed by the access_token the token endpoint returned in this
\* run, and the local `token` holds that value, unaltered, from the moment
\* get_access_token returned.
C2_BearerIsReturnedToken ==
    /\ pc \in {"send", "mail_wait", "mail_check"} =>
          /\ HasAccessToken(tokenResp)
          /\ token = tokenResp.body.fields["access_token"]
    /\ mailReq.sent =>
          /\ HasAccessToken(tokenResp)
          /\ mailReq.headers.Authorization
                = "Bearer " \o tokenResp.body.fields["access_token"].v

C2_Witness ==
    /\ mailReq.sent
    /\ HasAccessToken(tokenResp)
    /\ tokenResp.body.fields["access_token"] = Str("aZ")
    /\ mailReq.headers.Authorization = "Bearer aZ"

-----------------------------------------------------------------------------
(* C3 *)

\* C3 as stated: when the mail request was issued and the mail endpoint's
\* response has a status outside 200-299, the success line is never printed
\* and the run ends with the failure line printed.
C3_NonSuccessMailFails ==
    (mailReq.sent /\ mailResp.received /\ ~Is2xx(mailResp)) =>
        /\ ~SuccessPrinted
        /\ pc = "done" => FailurePrinted

\* C3 amended: when the mail request was issued and the mail endpoint's
\* response has a 4xx or 5xx status, the success line is never printed and the
\* run ends with the failure line (fixed prefix plus the HTTP error) printed.
C3_ErrorMailFails ==
    (mailReq.sent /\ Is4xx5xx(mailResp)) =>
        /\ ~SuccessPrinted
        /\ pc = "done" =>
              output = << <<FailurePrefix, [type |-> "HTTPError",
                                            status |-> mailResp.status,
                                            url |-> mailReq.url]>> >>

C3_Witness ==
    /\ pc = "done"
    /\ mailReq.sent /\ mailResp.received /\ mailResp.status = 401
    /\ FailurePrinted /\ ~SuccessPrinted

-----------------------------------------------------------------------------
(* C4 *)

C4_BothSucceeded ==
    /\ Is2xx(tokenResp) /\ HasAccessToken(tokenResp)
    /\ mailReq.sent /\ Is2xx(mailResp)

\* C4: once the token endpoint has answered 2xx with an access_token and the
\* mail endpoint has answered 2xx, the run reaches its end with the success
\* line printed exactly once and nothing else printed, and no failure line is
\* printed at any moment.
C4_SuccessRunPrintsSuccessOnce ==
    /\ C4_BothSucceeded ~> (pc = "done" /\ output = << <<SuccessLine>> >>)
    /\ [](C4_BothSucceeded => (~FailurePrinted /\ Len(output) <= 1))
    /\ []((C4_BothSucceeded /\ pc = "done") => output = << <<SuccessLine>> >>)

C4_Witness ==
    /\ C4_BothSucceeded
    /\ tokenResp.status = 200 /\ mailResp.status = 202
    /\ pc = "done"
    /\ output = << <<SuccessLine>> >>

-----------------------------------------------------------------------------
(* C5 *)

C5_TokenFieldMissing ==
    /\ Is2xx(tokenResp)
    /\ tokenResp.body.kind = "object"
    /\ "access_token" \notin DOMAIN tokenResp.body.fields

\* C5: when the token endpoint answers 2xx with a JSON object that has no
\* access_token field, no mail request is issued, the success line is not
\* printed, the error raised is the missing-field error, and the run ends with
\* the failure line for that error as its only output.
C5_MissingFieldIsCaught ==
    C5_TokenFieldMissing =>
        /\ NoMailRequest
        /\ ~SuccessPrinted
        /\ pc \in {"token_check", "except", "done"}
        /\ pc \in {"except", "done"} => exc = [type |-> "KeyError", key |-> "access_token"]
        /\ pc = "done" =>
              output = << <<FailurePrefix, [type |-> "KeyError", key |-> "access_token"]>> >>

C5_Witness ==
    /\ C5_TokenFieldMissing
    /\ tokenResp.status = 200
    /\ pc = "done"
    /\ FailurePrinted
    /\ NoMailRequest

-----------------------------------------------------------------------------
(* C6 *)

\* C6: once the configuration is read TO_EMAIL equals FROM_EMAIL, the
\* configured from-address, for the rest of the run; every mail request has
\* exactly one recipient, whose address is the configured from-address, and
\* its URL is the send-mail URL of that same address.
C6_SelfSend ==
    /\ pc # "load" => (FROM_EMAIL = env["FROM_EMAIL"] /\ TO_EMAIL = FROM_EMAIL)
    /\ mailReq.sent =>
          /\ Len(mailReq.json.message.toRecipients) = 1
          /\ mailReq.json.message.toRecipients[1].emailAddress.address = env["FROM_EMAIL"]
          /\ mailReq.url = "https://graph.microsoft.com/v1.0/users/"
                              \o (IF env["FROM_EMAIL"] = None THEN "None"
                                  ELSE env["FROM_EMAIL"].v)
                              \o "/sendMail"

C6_Witness ==
    /\ mailReq.sent
    /\ env["FROM_EMAIL"] = Str("b@x.io")
    /\ env["MICROSOFT_CLIENT_ID"] = Str("app-1")
    /\ mailReq.json.message.toRecipients = << [emailAddress |-> [address |-> Str("b@x.io")]] >>
    /\ mailReq.url = "https://graph.microsoft.com/v1.0/users/b@x.io/sendMail"

-----------------------------------------------------------------------------
(* C7 *)

\* C7 as stated: a run that has ended has made exactly two network calls, one
\* to the token endpoint and one to the mail endpoint.
C7_ExactlyTwoCalls ==
    pc = "done" => (tokenCalls = 1 /\ mailCalls = 1)

\* C7 amended: a run makes exactly one call to the token endpoint and at most
\* one call to the mail endpoint, the latter only after the token response
\* passed the status check and yielded an access_token; and whenever the
\* program is not blocked in a network call it goes on to block in one or to
\* end.
C7_AtMostTwoCalls ==
    /\ [](/\ tokenCalls <= 1 /\ mailCalls <= 1
          /\ pc \notin {"load", "main"} => tokenCalls = 1
          /\ mailCalls = 1 =>
                (tokenCalls = 1 /\ ~Is4xx5xx(tokenResp) /\ HasAccessToken(tokenResp)))
    /\ (pc \notin {"token_wait", "mail_wait"}) ~> (pc \in {"token_wait", "mail_wait", "done"})

\* a run that ended after the token call alone
C7_Witness ==
    /\ pc = "done"
    /\ tokenCalls = 1 /\ mailCalls = 0
    /\ exc.type = "ConnectionError"

-----------------------------------------------------------------------------
(* C8 *)

\* C8: in no state has the mail request been sent while the token request is
\* unsent or still awaits its response.
C8_MailAfterTokenResponse ==
    (mailReq.sent \/ mailCalls > 0 \/ sendEmailCalls > 0) =>
        /\ tokenReq.sent
        /\ tokenResp.received
        /\ pc \notin {"load", "main", "token_wait"}

C8_Witness ==
    /\ pc = "mail_wait"
    /\ mailReq.sent /\ mailCalls = 1
    /\ tokenReq.sent /\ tokenResp.received

-----------------------------------------------------------------------------
(* C9 *)

\* C9: whatever subset of the four configuration values is absent, the run
\* issues the token request, carrying the values as they are, and any error
\* raised or failure line printed comes from a network call that raised or
\* from the check of a received response, never from a check of the
\* configuration.
C9_NoUpFrontValidation ==
    /\ pc \notin {"load", "main"} =>
          /\ tokenReq.sent /\ tokenCalls = 1
          /\ tokenReq.data.client_id = env["MICROSOFT_CLIENT_ID"]
          /\ tokenReq.data.client_secret = env["MICROSOFT_CLIENT_SECRET"]
    /\ (exc # NoException \/ FailurePrinted) =>
          /\ tokenReq.sent
          /\ \/ exc.type = "ConnectionError"
             \/ exc.type = "HTTPError"
                /\ \/ Is4xx5xx(tokenResp) /\ exc.status = tokenResp.status
                   \/ Is4xx5xx(mailResp) /\ exc.status = mailResp.status
             \/ exc.type \in {"JSONDecodeError", "TypeError", "KeyError"}
                /\ tokenResp.received

C9_Witness ==
    /\ \A n \in EnvNames : env[n] = None
    /\ tokenReq.sent
    /\ tokenReq.url = "https://login.microsoftonline.com/None/oauth2/v2.0/token"
    /\ pc = "done"
    /\ FailurePrinted
    /\ exc.type = "HTTPError"

-----------------------------------------------------------------------------
(* C10 *)

\* C10: at most one line is ever printed, a run that has ended has printed
\* exactly one line, the success line or a failure line, and the success line
\* is printed only if the token response and the mail response both passed
\* the status check.
C10_ExactlyOneResultLine ==
    /\ Len(output) <= 1
    /\ ~(SuccessPrinted /\ FailurePrinted)
    /\ pc = "done" => (Len(output) = 1 /\ (SuccessPrinted \/ FailurePrinted))
    /\ SuccessPrinted =>
          /\ tokenResp.received /\ ~Is4xx5xx(tokenResp)
          /\ mailResp.received /\ ~Is4xx5xx(mailResp)

C10_Witness ==
    /\ pc = "done"
    /\ mailResp.received /\ mailResp.status = 500
    /\ output = << <<FailurePrefix, exc>> >>
    /\ ~SuccessPrinted

====
